---- MODULE Spec2Model ----
(***************************************************************************)
(* ESSA (essential site scanning analysis), prody/dynamics/essa.py.        *)
(*                                                                         *)
(* The ESSA object is modelled field by field.  Real numbers that the code *)
(* holds as floats are held exactly: a value n / sqrt(d) is the record     *)
(* [nan |-> FALSE, n |-> n, d |-> d] (d > 0), and NaN is a value of its    *)
(* own.  The elastic network builders (GNM, ANM, reduceModel) are outside  *)
(* essa.py; a structure carries the eigenvalues they return for it.        *)
(* Ligand bookkeeping of setSystem (_lig, _lig_idx, _dist) and the         *)
(* plotting and file-saving methods do not touch the modelled fields.      *)
(***************************************************************************)
EXTENDS Integers, Sequences, FiniteSets, TLC

VARIABLES
    atoms,        \* self._atoms: None or Some(structure)
    ca,           \* self._ca: None or Some(sequence of C-alpha residues)
    n_modes,      \* self._n_modes
    enm,          \* self._enm
    cutoff,       \* self._cutoff
    ensemble,     \* self._ensemble
    labels,       \* self._labels
    zscore,       \* self._zscore
    df,           \* self._df (attribute absent until scanPockets completes)
    df_zs,        \* self._df_zs
    idx_max,      \* self._idx_max
    idx_med,      \* self._idx_med
    pocket_ranks, \* self._pocket_ranks
    thr,          \* the LHD thresholds rankPockets used for f_max and f_med
    disk,         \* <title>_pro_out directories written by fpocket
    progress,     \* the steps LOGGER.update reported in the last scan
    last,         \* the last call: operation, arguments, outcome
    stage         \* how far the caller is through the pipeline since setSystem

vars == <<atoms, ca, n_modes, enm, cutoff, ensemble, labels, zscore, df, df_zs,
          idx_max, idx_med, pocket_ranks, thr, disk, progress, last, stage>>

----------------------------------------------------------------------------
(* Bounds and program constants *)

MaxModes == 2

MaxPockets == 8

GnmCutoff == 10

AnmCutoff == 15

Percent == 100

----------------------------------------------------------------------------
(* Optional values: None / absent attribute is <<>>, a value v is <<v>> *)

None == <<>>

Some(v) == <<v>>

Val(o) == o[1]

NoFail == 0 - 1

----------------------------------------------------------------------------
(* Exact reals n / sqrt(d) *)

NaN == [nan |-> TRUE, n |-> 0, d |-> 0]

Real(n, d) == [nan |-> FALSE, n |-> n, d |-> d]

Zero == Real(0, 1)

Abs(x) == IF x < 0 THEN -x ELSE x

RECURSIVE Gcd(_, _)
Gcd(a, b) == IF b = 0 THEN a ELSE Gcd(b, a % b)

RECURSIVE SumSeq(_)
SumSeq(s) == IF s = <<>> THEN 0 ELSE Head(s) + SumSeq(Tail(s))

RECURSIVE ProdSeq(_)
ProdSeq(s) == IF s = <<>> THEN 1 ELSE Head(s) * ProdSeq(Tail(s))

RECURSIVE GcdSeq(_)
GcdSeq(s) == IF s = <<>> THEN 0 ELSE Gcd(Head(s), GcdSeq(Tail(s)))

RECURSIVE MinSeq(_)
MinSeq(s) ==
    IF Len(s) = 1 THEN s[1]
    ELSE LET m == MinSeq(Tail(s)) IN IF Head(s) < m THEN Head(s) ELSE m

\* a >= b on reals; any comparison with NaN is false
Geq(a, b) ==
    IF a.nan \/ b.nan THEN FALSE
    ELSE IF a.n >= 0 /\ b.n <= 0 THEN TRUE
    ELSE IF a.n < 0 /\ b.n >= 0 THEN FALSE
    ELSE IF a.n >= 0 THEN a.n * a.n * b.d >= b.n * b.n * a.d
    ELSE a.n * a.n * b.d <= b.n * b.n * a.d

\* the same real number (NaN is the same value as NaN here, as a table cell)
SameReal(a, b) ==
    IF a.nan \/ b.nan THEN a.nan /\ b.nan ELSE Geq(a, b) /\ Geq(b, a)

----------------------------------------------------------------------------
(* Structures.  A structure lists its residues in file order; the residue  *)
(* index of a residue is its position, counted from 0, hetero residues     *)
(* included.  ref and pert are the eigenvalues the network builders return *)
(* for the C-alpha model and for the reduced model of each C-alpha residue.*)

Residue(c, r, h) == [chid |-> c, resnum |-> r, het |-> h]

RECURSIVE CaFrom(_, _)
CaFrom(residues, i) ==
    IF i > Len(residues) THEN <<>>
    ELSE (IF residues[i].het THEN <<>>
          ELSE << [chid |-> residues[i].chid, resnum |-> residues[i].resnum,
                   resindex |-> i - 1] >>)
         \o CaFrom(residues, i + 1)

\* atoms.select('protein and heavy and not hetatm').ca
CaSelection(s) == CaFrom(s.residues, 1)

\* the spectrum of a structure whose k-th C-alpha residue, made heavy-atom,
\* raises every eigenvalue by shifts[k]
Structure(title, residues, shifts) ==
    [title |-> title, residues |-> residues,
     ref |-> [m \in 1..MaxModes |-> m],
     pert |-> [k \in 1..Len(shifts) |->
                 [m \in 1..MaxModes |-> m + shifts[k]]]]

StructA ==
    Structure("A", <<Residue("A", 1, FALSE), Residue("A", 2, FALSE),
                     Residue("A", 3, FALSE)>>, <<0, 1, 60>>)

\* residue index 1 is a hetero residue: the C-alpha residue indices are 0, 2, 3
StructB ==
    Structure("B", <<Residue("A", 1, FALSE), Residue("A", 2, TRUE),
                     Residue("A", 3, FALSE), Residue("A", 4, FALSE)>>,
              <<0, 1, 2>>)

LifeStructures == {StructA, StructB}

Kinds == {"gnm", "anm"}

UserCutoffs == {7}

CutoffArgs == {None} \cup {Some(c) : c \in UserCutoffs}

----------------------------------------------------------------------------
(* scanResidues *)

\* GNM.buildKirchhoff / ANM.buildHessian called without a cutoff
DefaultCutoff(kind) == IF kind = "gnm" THEN GnmCutoff ELSE AnmCutoff

\* the cutoff the reference model is built with
ReferenceCutoff(kind, cut) ==
    IF cut # None THEN Val(cut) ELSE DefaultCutoff(kind)

\* a variant that records the builder's cutoff as if the model were always a GNM
RecordedCutoffGnmOnly(kind, cut) ==
    IF cut # None THEN Val(cut) ELSE GnmCutoff

\* self._cutoff after the reference model is built: the user's value, or
\* ca_enm.getCutoff()
RecordedCutoff(kind, cut) ==
    IF cut # None THEN Val(cut) ELSE DefaultCutoff(kind)

\* calcModes(n_modes=n) of the C-alpha model
RefEigvals(s, n) == SubSeq(s.ref, 1, n)

\* calcModes(n_modes=n) of the reduced model of the k-th C-alpha residue
PertEigvals(s, k, n) == SubSeq(s.pert[k], 1, n)

ReferenceModel(s, n, kind, cut) ==
    [title |-> <<"ca">>, kind |-> kind, cutoff |-> ReferenceCutoff(kind, cut),
     n_modes |-> n, eigvals |-> RefEigvals(s, n)]

\* a variant that names the perturbed model after the loop count, not the
\* residue index
PerturbedModelByCount(s, caSeq, k, n, kind, c) ==
    [title |-> <<"res_", k - 1>>, kind |-> kind, cutoff |-> c,
     n_modes |-> n, eigvals |-> PertEigvals(s, k, n)]

PerturbedModel(s, caSeq, k, n, kind, c) ==
    [title |-> <<"res_", caSeq[k].resindex>>, kind |-> kind, cutoff |-> c,
     n_modes |-> n, eigvals |-> PertEigvals(s, k, n)]

\* a variant that goes on to the last residue whatever a builder raises
PerturbedSetsPastFailure(s, caSeq, n, kind, c, done) ==
    [k \in 1..Len(caSeq) |-> PerturbedModel(s, caSeq, k, n, kind, c)]

\* the mode sets the loop has added once `done` residues are through
PerturbedSets(s, caSeq, n, kind, c, done) ==
    [k \in 1..done |-> PerturbedModel(s, caSeq, k, n, kind, c)]

\* self._ensemble's mode sets: the reference model, then the reduced models
\* of the first `done` residues of the C-alpha selection
ScannedSets(s, caSeq, n, kind, cut, c, done) ==
    <<ReferenceModel(s, n, kind, cut)>>
    \o PerturbedSets(s, caSeq, n, kind, c, done)

\* self._labels
ScannedLabels(sets) ==
    <<<<"ref">>>> \o [k \in 1..(Len(sets) - 1) |-> sets[k + 1].title]

\* a variant that averages over the residues (axis=0), not over the modes
EigDiffMeanAxis0(sets) ==
    LET denom == sets[1].eigvals
        M == Len(denom)
        fin == \A m \in 1..M : denom[m] # 0
        L == ProdSeq(denom)
    IN [m \in 1..M |->
          IF fin
          THEN [fin |-> TRUE,
                p |-> Percent * SumSeq([k \in 1..(Len(sets) - 1) |->
                        (sets[k + 1].eigvals[m] - denom[m]) * (L \div denom[m])]),
                q |-> (Len(sets) - 1) * L]
          ELSE [fin |-> FALSE, p |-> 0, q |-> 1]]

\* mean(eig_diff, axis=1) as fractions p / q with one q for all residues;
\* fin is FALSE where a reference eigenvalue is 0 (the float is inf or nan)
EigDiffMean(sets) ==
    LET denom == sets[1].eigvals
        M == Len(denom)
        fin == \A m \in 1..M : denom[m] # 0
        L == ProdSeq(denom)
    IN [k \in 1..(Len(sets) - 1) |->
          IF fin
          THEN [fin |-> TRUE,
                p |-> Percent * SumSeq([m \in 1..M |->
                        (sets[k + 1].eigvals[m] - denom[m]) * (L \div denom[m])]),
                q |-> M * L]
          ELSE [fin |-> FALSE, p |-> 0, q |-> 1]]

\* scipy.stats.zscore of integers xs: (x - mean) / std with the population
\* std; NaN throughout when the std is 0.  z is unchanged by x -> (x - c) / g,
\* which keeps the integers small.
ZscoreInts(xs) ==
    LET N == Len(xs)
        lo == MinSeq(xs)
        sh == [k \in 1..N |-> xs[k] - lo]
        g == GcdSeq(sh)
        x == [k \in 1..N |-> IF g = 0 THEN 0 ELSE sh[k] \div g]
        S == SumSeq(x)
        D == N * SumSeq([k \in 1..N |-> x[k] * x[k]]) - S * S
    IN [k \in 1..N |-> IF D = 0 THEN NaN ELSE Real(N * x[k] - S, D)]

\* zscore(eig_diff_mean): a non-finite entry makes every entry NaN
Zscore(xs) ==
    IF \E k \in 1..Len(xs) : ~xs[k].fin
    THEN [k \in 1..Len(xs) |-> NaN]
    ELSE ZscoreInts([k \in 1..Len(xs) |-> xs[k].p])

EssaZscores(sets) == Zscore(EigDiffMean(sets))

----------------------------------------------------------------------------
(* scanPockets *)

QuantilePct == 85

Quarter == 4

EssaScale == 10

LhdScale == 100

RECURSIVE SortInts(_)
SortInts(s) ==
    IF s = <<>> THEN <<>>
    ELSE LET rest == SortInts(Tail(s))
             lower == SelectSeq(rest, LAMBDA y : y <= Head(s))
             upper == SelectSeq(rest, LAMBDA y : y > Head(s))
         IN lower \o <<Head(s)>> \o upper

RECURSIVE SetToSeq(_)
SetToSeq(S) ==
    IF S = {} THEN <<>>
    ELSE LET x == CHOOSE y \in S : \A z \in S : y <= z
         IN <<x>> \o SetToSeq(S \ {x})

\* l.sort(key=numeric id): the pocket files in ascending id
RECURSIVE SortById(_)
SortById(files) ==
    IF files = {} THEN <<>>
    ELSE LET f == CHOOSE x \in files : \A y \in files : x.id <= y.id
         IN <<f>> \o SortById(files \ {f})

\* rcr: (chain, resnum) -> residue index, over the C-alpha selection
Rcr(caSeq) ==
    [key \in {<<caSeq[k].chid, caSeq[k].resnum>> : k \in 1..Len(caSeq)} |->
        LET k == CHOOSE j \in 1..Len(caSeq) :
                   /\ <<caSeq[j].chid, caSeq[j].resnum>> = key
                   /\ \A i \in (j + 1)..Len(caSeq) :
                        <<caSeq[i].chid, caSeq[i].resnum>> # key
        IN caSeq[k].resindex]

\* pi[p]: the residue indices of a pocket's residues
Pi(pocket, caSeq) ==
    SetToSeq({Rcr(caSeq)[x] : x \in pocket.residues})

\* self._zscore[v]: numpy indexes the array by the numbers v themselves
ZscoreByIndex(zs, v) == [j \in 1..Len(v) |-> zs[v[j] + 1]]

ZscoreAt(zs, v) == ZscoreByIndex(zs, v)

IndexInRange(zs, v) == \A j \in 1..Len(v) : v[j] + 1 <= Len(zs)

\* max(...) of entries of one z-score vector (all NaN, or none)
MaxReal(vals) ==
    IF \E j \in 1..Len(vals) : vals[j].nan THEN NaN
    ELSE LET ns == SortInts([j \in 1..Len(vals) |-> vals[j].n])
         IN Real(ns[Len(ns)], vals[1].d)

\* numpy.median: the middle entry, or the mean of the two middle entries
MedianReal(vals) ==
    IF \E j \in 1..Len(vals) : vals[j].nan THEN NaN
    ELSE LET ns == SortInts([j \in 1..Len(vals) |-> vals[j].n])
             K == Len(ns)
         IN IF K % 2 = 1 THEN Real(ns[(K + 1) \div 2], vals[1].d)
            ELSE Real(ns[K \div 2] + ns[K \div 2 + 1], 4 * vals[1].d)

\* the rows of self._df_zs, numbered 1..P in file order
PocketZscoreTable(pockets, zs, caSeq) ==
    LET lhd == ZscoreInts([j \in 1..Len(pockets) |-> pockets[j].lhd])
    IN [j \in 1..Len(pockets) |->
          [ESSA_max |-> MaxReal(ZscoreAt(zs, Pi(pockets[j], caSeq))),
           ESSA_med |-> MedianReal(ZscoreAt(zs, Pi(pockets[j], caSeq))),
           LHD |-> lhd[j]]]

\* the rows of self._df: the local hydrophobic density score of each pocket
PocketFeatureTable(pockets) == [j \in 1..Len(pockets) |-> pockets[j].lhd]

----------------------------------------------------------------------------
(* rankPockets *)

\* count_nonzero(lhd >= 0.)
CountNonNegative(tab) ==
    Cardinality({j \in 1..Len(tab) : Geq(tab[j].LHD, Zero)})

\* quantile(lhd, q=.85), linear interpolation between order statistics
Quantile(tab) ==
    IF \E j \in 1..Len(tab) : tab[j].LHD.nan THEN NaN
    ELSE LET P == Len(tab)
             s == SortInts([j \in 1..P |-> tab[j].LHD.n])
             d == tab[1].LHD.d
             pos == QuantilePct * (P - 1)
             j0 == pos \div Percent
             f == pos % Percent
         IN IF f = 0 THEN Real(s[j0 + 1], d)
            ELSE Real(Percent * s[j0 + 1] + f * (s[j0 + 2] - s[j0 + 1]),
                      Percent * Percent * d)

\* a variant that compares n with a true quarter of the pockets
ThresholdByFraction(n, size, q) ==
    IF Quarter * n >= size THEN Zero ELSE q

\* n >= lhd.size // 4 selects 0., otherwise q
Threshold(n, size, q) ==
    IF n >= size \div Quarter THEN Zero ELSE q

\* the pocket numbers whose LHD passes the filter, in table order
Survivors(tab, t) ==
    SelectSeq([j \in 1..Len(tab) |-> j], LAMBDA j : Geq(tab[j].LHD, t))

\* the largest r in lo..hi with r * r <= x, given lo * lo <= x
RECURSIVE IsqrtIn(_, _, _)
IsqrtIn(x, lo, hi) ==
    IF lo = hi THEN lo
    ELSE LET mid == (lo + hi + 1) \div 2
         IN IF mid * mid <= x THEN IsqrtIn(x, mid, hi)
            ELSE IsqrtIn(x, lo, mid - 1)

Isqrt(x) == IsqrtIn(x, 0, IF x < 46340 THEN x ELSE 46340)

\* round(decimals): x * scale rounded to an integer, halves to even.  With
\* x = n / sqrt(d): the result has magnitude r, the largest r with
\* (2r - 1)^2 * d <= (2 * scale * n)^2, and an exact half goes to the even side
RoundReal(x, scale) ==
    IF x.nan THEN [nan |-> TRUE, v |-> 0]
    ELSE LET t == 4 * scale * scale * x.n * x.n
             r == (Isqrt(t \div x.d) + 1) \div 2
             tie == r >= 1 /\ (2 * r - 1) * (2 * r - 1) * x.d = t
             mag == IF tie /\ r % 2 = 1 THEN r - 1 ELSE r
         IN [nan |-> FALSE, v |-> IF x.n < 0 THEN -mag ELSE mag]

\* a sorts strictly before b, descending, NaN last
KeyBefore(a, b) ==
    IF a.nan \/ b.nan THEN ~a.nan /\ b.nan ELSE a.v > b.v

RowBefore(a, b) ==
    \/ KeyBefore(a.e, b.e)
    \/ /\ ~KeyBefore(b.e, a.e)
       /\ KeyBefore(a.l, b.l)

\* a variant that sorts unstably: a row goes before the rows it ties with
InsertRowBeforeTies(sorted, x) ==
    LET before == SelectSeq(sorted, LAMBDA y : RowBefore(y, x))
        after == SelectSeq(sorted, LAMBDA y : ~RowBefore(y, x))
    IN before \o <<x>> \o after

InsertRow(sorted, x) ==
    LET before == SelectSeq(sorted, LAMBDA y : ~RowBefore(x, y))
        after == SelectSeq(sorted, LAMBDA y : RowBefore(x, y))
    IN before \o <<x>> \o after

RECURSIVE SortRows(_)
SortRows(rows) ==
    IF rows = <<>> THEN <<>>
    ELSE InsertRow(SortRows(SubSeq(rows, 1, Len(rows) - 1)), rows[Len(rows)])

\* zf[f] with its two columns rounded: pocket number, ESSA to 1 decimal, LHD
\* to 2 decimals
RECURSIVE RoundedRows(_, _, _)
RoundedRows(tab, col, keep) ==
    IF keep = <<>> THEN <<>>
    ELSE << [j |-> Head(keep),
             e |-> RoundReal(tab[Head(keep)][col], EssaScale),
             l |-> RoundReal(tab[Head(keep)].LHD, LhdScale)] >>
         \o RoundedRows(tab, col, Tail(keep))

RECURSIVE PocketNumbers(_)
PocketNumbers(rows) ==
    IF rows = <<>> THEN <<>> ELSE <<Head(rows).j>> \o PocketNumbers(Tail(rows))

\* zf.sort_values([col, 'LHD'], ascending=False).index for one ESSA column
RankBy(tab, col, t) ==
    PocketNumbers(SortRows(RoundedRows(tab, col, Survivors(tab, t))))

----------------------------------------------------------------------------
(* The object *)

Call(op, outcome, cut, failAt, tools) ==
    [op |-> op, outcome |-> outcome, cut |-> cut, failAt |-> failAt,
     tools |-> tools]

Min(a, b) == IF a < b THEN a ELSE b

\* ESSA.__init__
Init ==
    /\ atoms = None
    /\ ca = None
    /\ n_modes = None
    /\ enm = None
    /\ cutoff = None
    /\ ensemble = None
    /\ labels = None
    /\ zscore = None
    /\ df = None
    /\ df_zs = None
    /\ idx_max = None
    /\ idx_med = None
    /\ pocket_ranks = None
    /\ thr = None
    /\ disk = <<>>
    /\ progress = <<>>
    /\ last = Call("init", "ok", None, NoFail, TRUE)
    /\ stage = 0

\* a variant that keeps the C-alpha selection of the first structure
SetSystemKeepingSelection(s) ==
    /\ atoms' = Some(s)
    /\ ca' = IF ca = None THEN Some(CaSelection(s)) ELSE ca
    /\ last' = Call("setSystem", "ok", None, NoFail, TRUE)
    /\ stage' = 1
    /\ UNCHANGED <<n_modes, enm, cutoff, ensemble, labels, zscore, df, df_zs,
                   idx_max, idx_med, pocket_ranks, thr, disk, progress>>

\* ESSA.setSystem(atoms)
SetSystem(s) ==
    /\ atoms' = Some(s)
    /\ ca' = Some(CaSelection(s))
    /\ last' = Call("setSystem", "ok", None, NoFail, TRUE)
    /\ stage' = 1
    /\ UNCHANGED <<n_modes, enm, cutoff, ensemble, labels, zscore, df, df_zs,
                   idx_max, idx_med, pocket_ranks, thr, disk, progress>>

\* the steps of the reference model in which a builder can raise
RefSteps == {"build", "modes"}

\* ESSA.scanResidues(n_modes=n, enm=kind, cutoff=cut).  failAt is where a
\* network builder raises: 0 the reference model, k the k-th residue of the
\* C-alpha selection, NoFail nowhere.  The reference model raises either in
\* its build (refStep "build", before self._cutoff takes the builder's
\* cutoff) or in calcModes / addModeSet (refStep "modes", after it).  Without
\* a structure the reference build raises.
ScanResidues(n, kind, cut, failAt, refStep) ==
    LET caSeq == IF ca = None THEN <<>> ELSE Val(ca)
        N == Len(caSeq)
        refFails == atoms = None \/ failAt = 0
        buildFails == atoms = None \/ (failAt = 0 /\ refStep = "build")
        complete == ~refFails /\ failAt = NoFail
        done == IF refFails THEN 0 ELSE IF complete THEN N ELSE failAt - 1
        c == RecordedCutoff(kind, cut)
    IN /\ failAt \in {NoFail} \cup 0..N
       /\ refStep \in RefSteps
       /\ (atoms = None \/ failAt # 0) => refStep = "build"
       /\ \E sets \in {IF refFails THEN <<>>
                       ELSE ScannedSets(Val(atoms), caSeq, n, kind, cut, c,
                                        done)} :
          /\ n_modes' = Some(n)
          /\ enm' = Some(kind)
          /\ cutoff' = IF cut # None THEN cut
                       ELSE IF buildFails THEN cutoff ELSE Some(c)
          /\ ensemble' =
               Some([title |-> IF atoms = None THEN "None"
                               ELSE Val(atoms).title,
                     sets |-> sets,
                     labels |-> IF complete THEN Some(ScannedLabels(sets))
                                ELSE None,
                     matched |-> complete])
          /\ labels' = Some(IF refFails THEN <<<<"ref">>>>
                            ELSE ScannedLabels(sets))
          /\ progress' = IF refFails THEN progress
                         ELSE [k \in 1..(IF complete THEN N ELSE failAt) |->
                                 caSeq[k].resindex + 1]
          /\ zscore' = IF complete THEN Some(EssaZscores(sets)) ELSE zscore
          /\ last' = Call("scanResidues", IF complete THEN "ok" ELSE "error",
                          cut, failAt, TRUE)
          /\ stage' = IF stage = 0 THEN 0 ELSE IF complete THEN 2 ELSE 1
          /\ UNCHANGED <<atoms, ca, df, df_zs, idx_max, idx_med, pocket_ranks,
                         thr, disk>>

\* ESSA.scanPockets().  fpocket and pandas say whether which('fpocket') and
\* the pandas import succeed; out is what fpocket writes when it is run.
ScanPockets(fpocket, pandas, out) ==
    LET missing == ~fpocket \/ ~pandas
        ran == ~missing /\ atoms # None
        title == Val(atoms).title
        files == IF title \in DOMAIN disk THEN disk[title] ELSE out
    IN \E pockets \in {IF ran THEN SortById(files) ELSE <<>>} :
       LET caSeq == Val(ca)
           ok == /\ ran
                 /\ zscore # None
                 /\ \A j \in 1..Len(pockets) :
                      IndexInRange(Val(zscore), Pi(pockets[j], caSeq))
       IN /\ disk' = IF ran /\ title \notin DOMAIN disk
                     THEN disk @@ (title :> out) ELSE disk
          /\ df' = IF ok THEN Some(PocketFeatureTable(pockets)) ELSE df
          /\ df_zs' = IF ok
                      THEN Some(PocketZscoreTable(pockets, Val(zscore), caSeq))
                      ELSE df_zs
          /\ last' = Call("scanPockets",
                          IF missing THEN "None"
                          ELSE IF ok THEN "ok" ELSE "error",
                          None, NoFail, ~missing)
          /\ stage' = IF ok /\ stage >= 2 THEN 3 ELSE Min(stage, 2)
          /\ UNCHANGED <<atoms, ca, n_modes, enm, cutoff, ensemble, labels,
                         zscore, idx_max, idx_med, pocket_ranks, thr, progress>>

\* ESSA.rankPockets().  pandas says whether the pandas import succeeds.
RankPockets(pandas) ==
    LET ok == pandas /\ df_zs # None
        tab == Val(df_zs)
        n == CountNonNegative(tab)
        q == Quantile(tab)
    IN \E t_max \in {IF ok THEN Threshold(n, Len(tab), q) ELSE Zero},
          t_med \in {IF ok THEN Threshold(n, Len(tab), q) ELSE Zero} :
       \E by_max \in {IF ok THEN RankBy(tab, "ESSA_max", t_max) ELSE <<>>},
          by_med \in {IF ok THEN RankBy(tab, "ESSA_med", t_med) ELSE <<>>} :
       /\ thr' = IF ok THEN Some([max |-> t_max, med |-> t_med]) ELSE thr
       /\ idx_max' = IF ok THEN Some(by_max) ELSE idx_max
       /\ idx_med' = IF ok THEN Some(by_med) ELSE idx_med
       /\ pocket_ranks' =
            IF ok THEN Some([i \in 1..Len(by_max) |->
                               [max |-> by_max[i], med |-> by_med[i]]])
            ELSE pocket_ranks
       /\ last' = Call("rankPockets", IF ok THEN "ok" ELSE "error",
                       None, NoFail, pandas)
       /\ stage' = IF ok /\ stage >= 3 THEN 4 ELSE Min(stage, 3)
       /\ UNCHANGED <<atoms, ca, n_modes, enm, cutoff, ensemble, labels, zscore,
                      df, df_zs, disk, progress>>

----------------------------------------------------------------------------
(* The object's life: any call, in any order *)

PocketFile(id, residues, lhd) == [id |-> id, residues |-> residues, lhd |-> lhd]

\* what fpocket may report for a structure
FpocketOutputs(s) ==
    IF s.title = "A"
    THEN {{PocketFile(1, {<<"A", 1>>, <<"A", 2>>}, 2),
           PocketFile(2, {<<"A", 3>>}, 5),
           PocketFile(3, {<<"A", 1>>, <<"A", 2>>, <<"A", 3>>}, 2)}}
    ELSE {{PocketFile(1, {<<"A", 1>>, <<"A", 3>>}, 4),
           PocketFile(2, {<<"A", 1>>}, 1)},
          {PocketFile(1, {<<"A", 3>>, <<"A", 4>>}, 4),
           PocketFile(3, {<<"A", 1>>}, 1)}}

AnyOutput == UNION {FpocketOutputs(s) : s \in LifeStructures}

Next ==
    \/ \E s \in LifeStructures : SetSystem(s)
    \/ \E n \in {MaxModes}, kind \in Kinds, cut \in {None},
          failAt \in NoFail..Cardinality(
                      UNION {DOMAIN s.residues : s \in LifeStructures}) :
         \E refStep \in RefSteps : ScanResidues(n, kind, cut, failAt, refStep)
    \/ \E fpocket \in BOOLEAN, pandas \in BOOLEAN :
         \E out \in (IF atoms = None THEN AnyOutput
                     ELSE FpocketOutputs(Val(atoms))) :
           ScanPockets(fpocket, pandas, out)
    \/ \E pandas \in BOOLEAN : RankPockets(pandas)

Spec == Init /\ [][Next]_vars

----------------------------------------------------------------------------
(* Scans of one structure, over the spectra the builders may return *)

MaxEig == 2

Shifts == {0, 1}

\* residue index 1 is a hetero residue: the C-alpha residue indices are 0, 2
\* and 3
ScanLayout ==
    <<Residue("A", 1, FALSE), Residue("A", 2, TRUE), Residue("A", 3, FALSE),
      Residue("A", 4, FALSE)>>

\* eigenvalues come in ascending order
Ascending(r) == \A m \in 1..(Len(r) - 1) : r[m] <= r[m + 1]

RefSpectra == {r \in [1..MaxModes -> 0..MaxEig] : Ascending(r)}

PertSpectra(r) ==
    {p \in [1..MaxModes -> 0..(MaxEig + 1)] :
        /\ Ascending(p)
        /\ \A m \in 1..MaxModes : p[m] - r[m] \in Shifts}

ScanStructures ==
    UNION {
      {[title |-> "S", residues |-> ScanLayout, ref |-> r, pert |-> pert] :
         pert \in [1..Len(CaSelection([residues |-> ScanLayout])) ->
                     PertSpectra(r)]} :
      r \in RefSpectra}

\* the object after setSystem(s)
InitScan ==
    \E s \in ScanStructures :
      /\ atoms = Some(s)
      /\ ca = Some(CaSelection(s))
      /\ n_modes = None
      /\ enm = None
      /\ cutoff = None
      /\ ensemble = None
      /\ labels = None
      /\ zscore = None
      /\ df = None
      /\ df_zs = None
      /\ idx_max = None
      /\ idx_med = None
      /\ pocket_ranks = None
      /\ thr = None
      /\ disk = <<>>
      /\ progress = <<>>
      /\ last = Call("setSystem", "ok", None, NoFail, TRUE)
      /\ stage = 1

NextScan ==
    \E n \in 1..MaxModes, kind \in Kinds, cut \in CutoffArgs :
      ScanResidues(n, kind, cut, NoFail, "build")

SpecScan == InitScan /\ [][NextScan]_vars

----------------------------------------------------------------------------
(* Pocket ranking of structure A, over the pockets fpocket may have written *)

PocketCatalogue ==
    << {<<"A", 1>>}, {<<"A", 2>>}, {<<"A", 1>>, <<"A", 2>>, <<"A", 3>>} >>

LhdScores == {0, 1}

\* P pocket files: pocket p holds the residues of one catalogue entry and one
\* of the hydrophobic density scores
RankOutputs ==
    UNION {
      {{PocketFile(p, PocketCatalogue[((p + t) % Len(PocketCatalogue)) + 1],
                   lhd[p]) : p \in 1..P} :
         lhd \in [1..P -> LhdScores], t \in 1..Len(PocketCatalogue)} :
      P \in 1..MaxPockets}

\* the object after setSystem(StructA) and scanResidues(MaxModes), with
\* A_pro_out on disk
InitRank ==
    \E out \in RankOutputs :
      LET caSeq == CaSelection(StructA)
          c == RecordedCutoff("gnm", None)
          sets == ScannedSets(StructA, caSeq, MaxModes, "gnm", None, c,
                              Len(caSeq))
      IN /\ atoms = Some(StructA)
         /\ ca = Some(caSeq)
         /\ n_modes = Some(MaxModes)
         /\ enm = Some("gnm")
         /\ cutoff = Some(c)
         /\ ensemble = Some([title |-> "A", sets |-> sets,
                             labels |-> Some(ScannedLabels(sets)),
                             matched |-> TRUE])
         /\ labels = Some(ScannedLabels(sets))
         /\ zscore = Some(EssaZscores(sets))
         /\ df = None
         /\ df_zs = None
         /\ idx_max = None
         /\ idx_med = None
         /\ pocket_ranks = None
         /\ thr = None
         /\ disk = ("A" :> out)
         /\ progress = [k \in 1..Len(caSeq) |-> caSeq[k].resindex + 1]
         /\ last = Call("scanResidues", "ok", None, NoFail, TRUE)
         /\ stage = 2

NextRank ==
    \/ ScanPockets(TRUE, TRUE, disk["A"])
    \/ RankPockets(TRUE)

SpecRank == InitRank /\ [][NextRank]_vars

----------------------------------------------------------------------------
(* Properties *)

ScanCompleted == last.op = "scanResidues" /\ last.outcome = "ok"

RECURSIVE SumN(_)
SumN(zs) == IF zs = <<>> THEN 0 ELSE Head(zs).n + SumN(Tail(zs))

RECURSIVE SumSquareN(_)
SumSquareN(zs) ==
    IF zs = <<>> THEN 0 ELSE Head(zs).n * Head(zs).n + SumSquareN(Tail(zs))

(* C1: after every completed scanResidues over N C-alpha residues the      *)
(* ensemble has N + 1 members; member 1 is the reference model labelled    *)
(* 'ref', and member k + 1 is the reduced perturbed model of the k-th      *)
(* residue of the C-alpha selection, labelled res_<its residue index>.     *)
C1_EnsembleMembers ==
    ScanCompleted =>
      LET e == Val(ensemble)
          caSeq == CaSelection(Val(atoms))
          N == Len(caSeq)
      IN /\ Len(e.sets) = N + 1
         /\ e.labels # None
         /\ Len(Val(e.labels)) = N + 1
         /\ Val(e.labels)[1] = <<"ref">>
         /\ e.sets[1].title = <<"ca">>
         /\ e.sets[1].eigvals = SubSeq(Val(atoms).ref, 1, Val(n_modes))
         /\ \A k \in 1..N :
              /\ e.sets[k + 1].title = <<"res_", caSeq[k].resindex>>
              /\ Val(e.labels)[k + 1] = <<"res_", caSeq[k].resindex>>
              /\ e.sets[k + 1].eigvals
                   = SubSeq(Val(atoms).pert[k], 1, Val(n_modes))

C1_Witness ==
    /\ ScanCompleted
    /\ Val(atoms).title = "B"
    /\ Len(Val(ensemble).sets) = 4

(* C2: within one scanResidues call the reference model and every          *)
(* perturbed model are built with the same cutoff and the same n_modes,    *)
(* for 'gnm' and 'anm': the user's cutoff when one is supplied, otherwise  *)
(* the cutoff the reference builder chose, which is recorded; whatever an  *)
(* earlier scan left in self._cutoff.                                      *)
C2_SameCutoffAndModes ==
    ScanCompleted =>
      LET sets == Val(ensemble).sets
      IN /\ \A k \in 1..Len(sets) :
              /\ sets[k].cutoff = sets[1].cutoff
              /\ sets[k].n_modes = sets[1].n_modes
              /\ sets[k].kind = Val(enm)
              /\ Len(sets[k].eigvals) = Val(n_modes)
         /\ sets[1].n_modes = Val(n_modes)
         /\ cutoff = Some(sets[1].cutoff)
         /\ last.cut # None => sets[1].cutoff = Val(last.cut)
         /\ last.cut = None =>
              sets[1].cutoff = (IF Val(enm) = "gnm" THEN GnmCutoff ELSE AnmCutoff)

C2_Witness ==
    /\ ScanCompleted
    /\ last.cut = None
    /\ enm = Some("anm")
    /\ n_modes = Some(MaxModes)
    /\ Len(Val(ensemble).sets) = 4
    /\ Val(ensemble).sets[4].cutoff = AnmCutoff

\* M * L times the mean over the modes of (perturbed - reference) / reference
\* * 100 for member k + 1, L the product of the reference eigenvalues
MeanShiftScaled(sets, k) ==
    LET ref == sets[1].eigvals
    IN SumSeq([m \in 1..Len(ref) |->
                 Percent * (sets[k + 1].eigvals[m] - ref[m])
                 * (ProdSeq(ref) \div ref[m])])

ShiftsDefined(sets) ==
    /\ \A m \in 1..Len(sets[1].eigvals) : sets[1].eigvals[m] # 0
    /\ \E j, k \in 1..(Len(sets) - 1) :
         MeanShiftScaled(sets, j) # MeanShiftScaled(sets, k)

(* C3 as stated: the z-score vector of a completed scan has one entry per  *)
(* C-alpha residue, and its entries sum to zero whenever N > 1.            *)
C3_SumsToZero ==
    ScanCompleted =>
      LET zs == Val(zscore)
      IN /\ Len(zs) = Len(Val(ca))
         /\ Len(zs) > 1 =>
              /\ \A k \in 1..Len(zs) : ~zs[k].nan
              /\ SumN(zs) = 0

(* C3, amended: the z-score vector of a completed scan has one entry per   *)
(* C-alpha residue, in selection order.  When every reference eigenvalue   *)
(* is nonzero and the N mean shifts are not all equal, entry k is the      *)
(* normalisation of the mean over the modes of (eigenvalue of member k + 1 *)
(* - reference eigenvalue) / reference eigenvalue * 100: the entries are   *)
(* proportional to the deviations of the mean shifts from their mean, with *)
(* the same sign, have unit variance and sum to zero.  Otherwise every     *)
(* entry is NaN.                                                           *)
C3_ZscoreOfMeanShift ==
    ScanCompleted =>
      LET zs == Val(zscore)
          sets == Val(ensemble).sets
          N == Len(Val(ca))
          x == [k \in 1..N |-> MeanShiftScaled(sets, k)]
          S == SumSeq(x)
      IN /\ Len(zs) = N
         /\ Len(sets) = N + 1
         /\ IF ShiftsDefined(sets)
            THEN /\ \A k \in 1..N : ~zs[k].nan /\ zs[k].d = zs[1].d
                 /\ SumN(zs) = 0
                 /\ SumSquareN(zs) = N * zs[1].d
                 /\ \A j, k \in 1..N :
                      /\ zs[j].n * (N * x[k] - S) = zs[k].n * (N * x[j] - S)
                      /\ zs[j].n * (N * x[j] - S) >= 0
            ELSE \A k \in 1..N : zs[k].nan

C3_Witness ==
    /\ ScanCompleted
    /\ n_modes = Some(MaxModes)
    /\ Len(Val(zscore)) = 3
    /\ \A k \in 1..3 : ~Val(zscore)[k].nan /\ Val(zscore)[k].n # 0
    /\ Val(zscore)[1].n # Val(zscore)[2].n
    /\ Val(zscore)[2].n # Val(zscore)[3].n
    /\ Val(zscore)[1].n # Val(zscore)[3].n

(* C9: if one of the first n_modes eigenvalues of the reference model is   *)
(* zero, scanResidues fails and produces no z-score vector.                *)
C9_ZeroEigenvalueIsFatal ==
    (/\ last.op = "scanResidues"
     /\ \E m \in 1..Val(n_modes) : Val(atoms).ref[m] = 0)
      => /\ last.outcome = "error"
         /\ zscore = None

RankCompleted == last.op = "rankPockets" /\ last.outcome = "ok"

NonNegativeLhd(tab) ==
    {j \in 1..Len(tab) : ~tab[j].LHD.nan /\ tab[j].LHD.n >= 0}

(* C4 as stated: the LHD threshold of rankPockets is 0 exactly when at     *)
(* least 25% of the pockets have a non-negative LHD z-score, and the 85th  *)
(* percentile of the LHD z-scores otherwise, also when the number of       *)
(* pockets is not a multiple of 4.                                         *)
C4_QuarterOfPockets ==
    RankCompleted =>
      LET tab == Val(df_zs)
          t == Val(thr)
      IN IF 4 * Cardinality(NonNegativeLhd(tab)) >= Len(tab)
         THEN t.max = Zero /\ t.med = Zero
         ELSE /\ SameReal(t.max, Quantile(tab))
              /\ SameReal(t.med, Quantile(tab))

(* C4, amended: with P pockets of which n have a non-negative LHD z-score, *)
(* the LHD threshold of rankPockets is 0 exactly when n >= P div 4         *)
(* (integer division), and the 85th percentile of the LHD z-scores         *)
(* otherwise; f_max and f_med use the same threshold.                      *)
C4_QuarterByIntegerDivision ==
    RankCompleted =>
      LET tab == Val(df_zs)
          t == Val(thr)
      IN /\ t.max = t.med
         /\ IF Cardinality(NonNegativeLhd(tab)) >= Len(tab) \div 4
            THEN t.max = Zero
            ELSE SameReal(t.max, Quantile(tab))

C4_Witness ==
    /\ RankCompleted
    /\ Len(Val(df_zs)) = 8
    /\ Cardinality(NonNegativeLhd(Val(df_zs))) = 1
    /\ ~Val(thr).max.nan
    /\ Val(thr).max.n < 0
    /\ Len(Val(idx_max)) = 8

RoundedKey(tab, col, j) ==
    [e |-> RoundReal(tab[j][col], EssaScale),
     l |-> RoundReal(tab[j].LHD, LhdScale)]

\* key a sorts at or before key b in descending order of (e, l)
KeyAtLeast(a, b) ==
    IF a.e.nan \/ b.e.nan \/ a.l.nan \/ b.l.nan
    THEN (b.e.nan \/ (~a.e.nan /\ a.e.v >= b.e.v))
    ELSE a.e.v > b.e.v \/ (a.e.v = b.e.v /\ a.l.v >= b.l.v)

RankedAsStated(tab, col, idx, t) ==
    /\ Cardinality({idx[i] : i \in 1..Len(idx)}) = Len(idx)
    /\ {idx[i] : i \in 1..Len(idx)}
         = {j \in 1..Len(tab) : Geq(tab[j].LHD, t)}
    /\ \A i \in 1..(Len(idx) - 1) :
         /\ KeyAtLeast(RoundedKey(tab, col, idx[i]),
                       RoundedKey(tab, col, idx[i + 1]))
         /\ RoundedKey(tab, col, idx[i]) = RoundedKey(tab, col, idx[i + 1])
              => idx[i] < idx[i + 1]

(* C5: each ranking of rankPockets (by maximum and by median ESSA z-score) *)
(* is exactly the pockets whose unrounded LHD z-score is at least the      *)
(* threshold, each once, in descending order of (ESSA z-score rounded to 1 *)
(* decimal, LHD z-score rounded to 2 decimals), pockets with equal rounded *)
(* keys in their original table order (each entry against its successor,   *)
(* the order being total); both rankings hold the same pockets             *)
(* and pocket_ranks pairs them position by position.                       *)
C5_RankingSorted ==
    RankCompleted =>
      LET tab == Val(df_zs)
          t == Val(thr)
      IN /\ RankedAsStated(tab, "ESSA_max", Val(idx_max), t.max)
         /\ RankedAsStated(tab, "ESSA_med", Val(idx_med), t.med)
         /\ Len(Val(idx_max)) = Len(Val(idx_med))
         /\ Len(Val(pocket_ranks)) = Len(Val(idx_max))
         /\ \A i \in 1..Len(Val(idx_max)) :
              Val(pocket_ranks)[i]
                = [max |-> Val(idx_max)[i], med |-> Val(idx_med)[i]]

C5_Witness ==
    /\ RankCompleted
    /\ Len(Val(idx_max)) >= 3
    /\ Len(Val(idx_max)) < Len(Val(df_zs))
    /\ Val(idx_max) # Val(idx_med)
    /\ \E i \in 1..(Len(Val(idx_max)) - 1) :
         /\ RoundedKey(Val(df_zs), "ESSA_max", Val(idx_max)[i])
              = RoundedKey(Val(df_zs), "ESSA_max", Val(idx_max)[i + 1])
         /\ ~Val(df_zs)[Val(idx_max)[i]].ESSA_max.nan
    /\ \E i \in 1..(Len(Val(idx_max)) - 1) :
         Val(idx_max)[i] > Val(idx_max)[i + 1]

(* C8: if the builder fails on the k-th residue (or on the reference      *)
(* model, k = 0) the scan stops there: the ensemble holds the reference    *)
(* model and the models of residues 1..k-1 only, no later residue is       *)
(* visited, the z-scores are not recomputed from the partial ensemble, and *)
(* the pocket results are left alone.                                      *)
C8_FailedScanAborts ==
    [][(last'.op = "scanResidues" /\ last'.outcome = "error") =>
         LET k == IF atoms = None THEN 0 ELSE last'.failAt
             e == Val(ensemble')
         IN /\ zscore' = zscore
            /\ Len(e.sets) = k
            /\ e.labels = None
            /\ ~e.matched
            /\ k >= 1 => progress' = [i \in 1..k |-> Val(ca)[i].resindex + 1]
            /\ \A i \in 2..k :
                 e.sets[i].title = <<"res_", Val(ca)[i - 1].resindex>>
            /\ UNCHANGED <<df, df_zs, idx_max, idx_med, pocket_ranks>>]_vars

C8_Witness ==
    /\ last.op = "scanResidues"
    /\ last.outcome = "error"
    /\ last.failAt = 2
    /\ zscore # None
    /\ Len(Val(ensemble).sets) = 2
    /\ Len(progress) = 2
    /\ Len(Val(ca)) = 3

\* the z-scores of the residues with residue indices v: entry k of the vector
\* belongs to the k-th residue of the C-alpha selection
ZscoreByPosition(zs, v, caSeq) ==
    [j \in 1..Len(v) |->
        zs[CHOOSE k \in 1..Len(caSeq) : caSeq[k].resindex = v[j]]]

(* C6: after scanPockets completes in pipeline order, for every pocket p   *)
(* that fpocket reported, row p of the pocket z-score table holds the      *)
(* maximum and the median of the ESSA z-scores of the residues of pocket   *)
(* p, also when residue indices or pocket numbers are not contiguous.      *)
C6_PocketRowsMatchResidues ==
    (last.op = "scanPockets" /\ last.tools /\ stage >= 2) =>
      /\ last.outcome = "ok"
      /\ LET caSeq == Val(ca)
             tab == Val(df_zs)
         IN \A f \in disk[Val(atoms).title] :
              /\ f.id \in 1..Len(tab)
              /\ SameReal(tab[f.id].ESSA_max,
                          MaxReal(ZscoreByPosition(Val(zscore), Pi(f, caSeq),
                                                   caSeq)))
              /\ SameReal(tab[f.id].ESSA_med,
                          MedianReal(ZscoreByPosition(Val(zscore),
                                                      Pi(f, caSeq), caSeq)))

(* C7: when a required external tool is missing, scanPockets and           *)
(* rankPockets each return None and do not raise.                          *)
C7_MissingToolReturnsNone ==
    (last.op \in {"scanPockets", "rankPockets"} /\ ~last.tools)
      => last.outcome = "None"

FreshSets ==
    ScannedSets(Val(atoms), CaSelection(Val(atoms)), Val(n_modes), Val(enm),
                cutoff, Val(cutoff), Len(CaSelection(Val(atoms))))

FreshPockets == SortById(disk[Val(atoms).title])

ScanIsCurrent ==
    /\ atoms # None
    /\ ca = Some(CaSelection(Val(atoms)))
    /\ Val(ensemble).title = Val(atoms).title
    /\ Val(ensemble).sets = FreshSets
    /\ zscore = Some(EssaZscores(FreshSets))

PocketsAreCurrent ==
    /\ Val(atoms).title \in DOMAIN disk
    /\ df = Some(PocketFeatureTable(FreshPockets))
    /\ df_zs = Some(PocketZscoreTable(FreshPockets, Val(zscore), Val(ca)))

RanksAreCurrent ==
    /\ idx_max = Some(RankBy(Val(df_zs), "ESSA_max", Val(thr).max))
    /\ idx_med = Some(RankBy(Val(df_zs), "ESSA_med", Val(thr).med))
    /\ Len(Val(pocket_ranks)) = Len(Val(idx_max))

(* C10 as stated: an operation completes only when its predecessor in the  *)
(* pipeline completed after the latest setSystem, and whatever the getters *)
(* return was computed from the current structure and the current scan.    *)
C10_AlwaysCurrent ==
    /\ (last.op = "scanPockets" /\ last.outcome = "ok") => stage = 3
    /\ (last.op = "rankPockets" /\ last.outcome = "ok") => stage = 4
    /\ zscore # None => ScanIsCurrent
    /\ df_zs # None => ScanIsCurrent /\ PocketsAreCurrent
    /\ pocket_ranks # None =>
         ScanIsCurrent /\ PocketsAreCurrent /\ RanksAreCurrent

(* C10, amended: the object does not enforce the pipeline order.  When the *)
(* caller has called setSystem, scanResidues, scanPockets and rankPockets  *)
(* in that order and each completed (stage counts how many have, since     *)
(* the latest setSystem), the z-scores and the ensemble are those of the   *)
(* current structure, the pocket tables are those of the current z-scores, *)
(* and the rankings are those of the current pocket table.                 *)
C10_CurrentWhenInOrder ==
    /\ stage >= 2 => ScanIsCurrent
    /\ stage >= 3 => PocketsAreCurrent
    /\ stage >= 4 => RanksAreCurrent

C10_Witness ==
    /\ stage = 4
    /\ Val(atoms).title = "B"
    /\ "A" \in DOMAIN disk
    /\ Len(Val(idx_max)) >= 1

====
